---- MODULE Spec2Model ----
(***************************************************************************)
(* A model of the batching worker and the routing gateway of the           *)
(* distributed inference engine:                                           *)
(*   - BatchProcessor (src/batch_processor.py): submit callers, the        *)
(*     dispatch thread(s) started by start(), stop(), the metrics;         *)
(*   - Gateway.route_request (src/gateway.py) over a ConsistentHash ring   *)
(*     (src/consistent_hash.py).                                           *)
(* Time is a discrete tick.  A dispatch thread that can take a step takes  *)
(* it before the next tick (no scheduling delay); time passes only while   *)
(* every thread is blocked in Queue.get or is inside process_fn.           *)
(***************************************************************************)
EXTENDS Integers, Sequences, FiniteSets, TLC

\* ---------------------------------------------------------------- bounds
\* A run has at most MaxThreads dispatch threads, and its threads and its
\* process() callers are MaxLoad together: one thread with MaxLoad - 1
\* callers, two threads with MaxLoad - 2 callers, ...
MaxThreads == 2
MaxLoad == 4
MaxBatchSize == 2
MaxTimeout == 1

\* The gateway: at most MaxNodes workers, MaxVirtual virtual nodes each and
\* MaxRing ring entries in all; hashes are in 0..HashSpace-1; MaxRoutes calls
\* of route_request, MaxClientIds request ids chosen by clients.
MaxNodes == 3
MaxVirtual == 2
MaxRing == 3
HashSpace == 3
MaxRoutes == 2
MaxClientIds == 1
MaxChurnNodes == 2
MaxThreadedNodes == 2

Reqs == 1..(MaxLoad - 1)
Threads == 1..MaxThreads
NoThread == 0

Nodes == 1..MaxNodes
NoNode == 0
HashRange == 0..(HashSpace - 1)
NoHash == -1
Calls == 1..MaxRoutes
ClientIds == 1..MaxClientIds
NoId == 0

VARIABLES
    \* the run: how many threads may be spawned, how many callers arrive
    nspawns, ncallers,
    \* BatchProcessor fields
    max_batch_size, timeout_ms, running, worker_thread, request_queue, metrics,
    \* start() calls between the test of line 28 and the assignment of line 30
    starting,
    \* dispatch threads: position and the locals of _processing_loop / _process_batch
    tpc, batch, result_queues, results, timeout_flag, di, elapsed,
    \* process() callers: position, the result_queue of each, what each returned
    cpc, slot, received,
    \* history: every value put in each result_queue, the age of each request,
    \* the batch each request was dispatched in (a batch is named by its
    \* first request), the batches process_fn raised on, whether stop() was called
    hist, age, inBatch, bno, raised, stopCalled,
    \* the hash function as far as it was evaluated (NoHash: not yet)
    hashv,
    \* Gateway fields; node_order is the order in which list(self.nodes)
    \* lists the set
    workers, hash_ring, node_order, request_count,
    \* route_request calls: position, the request_id of the request, the
    \* counter value read at line 24, the locals target_node and the index
    \* of the retry loop, every forward made with its outcome, the outcome
    rpc, rid, rtmp, target_node, ridx, answers, rresult,
    \* how each worker behaves when a request is forwarded to it
    health

bpVars == <<nspawns, ncallers, max_batch_size, timeout_ms, running, worker_thread, request_queue,
            metrics, starting, tpc, batch, result_queues, results, timeout_flag,
            di, elapsed, cpc, slot, received, hist, age, inBatch, bno, raised,
            stopCalled>>

gwVars == <<hashv, workers, hash_ring, node_order, request_count, rpc, rid, rtmp,
            target_node, ridx, answers, rresult, health>>

vars == <<bpVars, gwVars>>

Min(a, b) == IF a < b THEN a ELSE b

RECURSIVE GCD(_, _)
GCD(a, b) == IF b = 0 THEN a ELSE GCD(b, a % b)

\* A float of the program as an exact fraction <<numerator, denominator>>.
Frac(n, d) == LET g == GCD(n, d) IN IF g = 0 THEN <<0, 1>> ELSE <<n \div g, d \div g>>

\* ------------------------------------------------------------ construction
BatchMetrics ==
    [total_requests |-> 0, total_batches |-> 0, avg_batch_size |-> <<0, 1>>,
     timeout_batches |-> 0, full_batches |-> 0]

\* BatchProcessor.__init__, lines 18-25.
BPFields ==
    /\ running = FALSE
    /\ worker_thread = NoThread
    /\ request_queue = <<>>
    /\ metrics = BatchMetrics
    /\ starting = 0
    /\ tpc = [t \in Threads |-> "unborn"]
    /\ batch = [t \in Threads |-> <<>>]
    /\ result_queues = [t \in Threads |-> <<>>]
    /\ results = [t \in Threads |-> <<>>]
    /\ timeout_flag = [t \in Threads |-> FALSE]
    /\ di = [t \in Threads |-> 0]
    /\ elapsed = [t \in Threads |-> 0]
    /\ cpc = [r \in Reqs |-> "new"]
    /\ slot = [r \in Reqs |-> <<>>]
    /\ received = [r \in Reqs |-> <<>>]
    /\ hist = [r \in Reqs |-> <<>>]
    /\ age = [r \in Reqs |-> 0]
    /\ inBatch = [r \in Reqs |-> 0]
    /\ bno = [t \in Threads |-> 0]
    /\ raised = {}
    /\ stopCalled = FALSE

BPInit ==
    /\ nspawns \in 1..MaxThreads
    /\ ncallers = MaxLoad - nspawns
    /\ max_batch_size \in 1..MaxBatchSize
    /\ timeout_ms \in 0..MaxTimeout
    /\ BPFields

\* No BatchProcessor in the run.
BPNone ==
    /\ nspawns = 0
    /\ ncallers = 0
    /\ max_batch_size = 1
    /\ timeout_ms = 0
    /\ BPFields

\* What no step of the BatchProcessor changes.
cfgVars == <<nspawns, ncallers, max_batch_size, timeout_ms, gwVars>>
threadVars == <<tpc, batch, result_queues, results, timeout_flag, di, elapsed, bno>>
callerVars == <<cpc, slot, received>>
histVars == <<hist, age, inBatch, raised, stopCalled>>

Created == {t \in Threads : tpc[t] # "unborn"}
Live == {t \in Threads : tpc[t] \notin {"unborn", "exited"}}
Elems(s) == {s[i] : i \in 1..Len(s)}

\* ------------------------------------------------------------ start / stop
\* start(), line 28 with running false: the caller goes on to line 30.
Start_Check ==
    /\ ~running
    /\ Cardinality(Created) + starting < nspawns
    /\ starting' = starting + 1
    /\ UNCHANGED <<cfgVars, running, worker_thread, request_queue, metrics,
                   threadVars, callerVars, histVars>>

\* start(), lines 28-29 with running true: return, nothing is spawned.
Start_Return ==
    /\ running
    /\ UNCHANGED vars

\* start(), lines 30-32 (and lines 53-55, the new thread's locals).
Start_Spawn ==
    /\ starting > 0
    /\ LET t == Cardinality(Created) + 1 IN
        /\ t \in Threads
        /\ running' = TRUE
        /\ worker_thread' = t
        /\ tpc' = [tpc EXCEPT ![t] = "top"]
        /\ elapsed' = [elapsed EXCEPT ![t] = 0]
    /\ starting' = starting - 1
    /\ UNCHANGED <<cfgVars, request_queue, metrics, batch, result_queues, results,
                   timeout_flag, di, bno, callerVars, histVars>>

\* stop(): line 35.  The join of lines 36-37 waits at most 2 s and changes nothing.
Stop ==
    /\ running' = FALSE
    /\ stopCalled' = TRUE
    /\ UNCHANGED <<cfgVars, worker_thread, request_queue, metrics, starting,
                   threadVars, callerVars, hist, age, inBatch, raised>>

\* ------------------------------------------------------------ process()
\* Lines 40-41: a fresh result_queue, the pair is put in request_queue.
\* Request r and its result_queue are both named r; callers arrive in the
\* order of their names.
Process_Put(r) ==
    /\ cpc[r] = "new"
    /\ r <= ncallers
    /\ IF r = 1 THEN TRUE ELSE cpc[r - 1] # "new"
    /\ request_queue' = Append(request_queue, <<r, r>>)
    /\ cpc' = [cpc EXCEPT ![r] = "put"]
    /\ UNCHANGED <<cfgVars, running, worker_thread, metrics, starting, threadVars,
                   slot, received, histVars>>

\* Lines 42-43, under the lock.
Process_Count(r) ==
    /\ cpc[r] = "put"
    /\ metrics' = [metrics EXCEPT !.total_requests = @ + 1]
    /\ cpc' = [cpc EXCEPT ![r] = "wait"]
    /\ UNCHANGED <<cfgVars, running, worker_thread, request_queue, starting,
                   threadVars, slot, received, histVars>>

\* Lines 47-48: result_queue.get returns what was put.
Process_Return(r) ==
    /\ cpc[r] = "wait"
    /\ slot[r] # <<>>
    /\ received' = [received EXCEPT ![r] = <<Head(slot[r])>>]
    /\ slot' = [slot EXCEPT ![r] = Tail(@)]
    /\ cpc' = [cpc EXCEPT ![r] = "got"]
    /\ UNCHANGED <<cfgVars, running, worker_thread, request_queue, metrics, starting,
                   threadVars, histVars>>

\* Lines 49-50: the 10 s wait expires on an empty result_queue.  The 10 s are
\* longer than the batch window: the wait can expire only on a request older
\* than timeout_ms (the ages of the model stop counting there).
Process_Timeout(r) ==
    /\ cpc[r] = "wait"
    /\ slot[r] = <<>>
    /\ age[r] > timeout_ms
    /\ cpc' = [cpc EXCEPT ![r] = "timeout"]
    /\ UNCHANGED <<cfgVars, running, worker_thread, request_queue, metrics, starting,
                   threadVars, slot, received, histVars>>

\* ------------------------------------------------------------ _processing_loop
\* The call of _process_batch (lines 69 and 76): the batch is handed over.
Dispatch(t, b, q, isTimeout) ==
    /\ tpc' = [tpc EXCEPT ![t] = "compute"]
    /\ batch' = [batch EXCEPT ![t] = b]
    /\ result_queues' = [result_queues EXCEPT ![t] = q]
    /\ timeout_flag' = [timeout_flag EXCEPT ![t] = isTimeout]
    /\ bno' = [bno EXCEPT ![t] = b[1]]
    /\ inBatch' = [r \in Reqs |-> IF r \in Elems(b) THEN b[1] ELSE inBatch[r]]

\* Line 57 as `while True`: the loop goes on whatever running is.
Loop_Check_Forever(t) ==
    /\ tpc[t] = "top"
    /\ tpc' = [tpc EXCEPT ![t] = "get"]
    /\ UNCHANGED <<batch, result_queues>>
    /\ UNCHANGED <<cfgVars, running, worker_thread, request_queue, metrics, starting,
                   results, timeout_flag, di, elapsed, bno, callerVars, histVars>>

\* Line 57: the loop test; the thread ends when running is false, and its
\* locals (a partly assembled batch included) are gone.
Loop_Check(t) ==
    /\ tpc[t] = "top"
    /\ IF running
       THEN /\ tpc' = [tpc EXCEPT ![t] = "get"]
            /\ UNCHANGED <<batch, result_queues>>
       ELSE /\ tpc' = [tpc EXCEPT ![t] = "exited"]
            /\ batch' = [batch EXCEPT ![t] = <<>>]
            /\ result_queues' = [result_queues EXCEPT ![t] = <<>>]
    /\ UNCHANGED <<cfgVars, running, worker_thread, request_queue, metrics, starting,
                   results, timeout_flag, di, elapsed, bno, callerVars, histVars>>

\* The test of line 68 with > for >=.
BatchFull_Strict(b) == Len(b) > max_batch_size

\* The test of line 68.
BatchFull(b) == Len(b) >= max_batch_size

\* Lines 63-71 on a LIFO queue: request_queue.get returns the newest item.
Loop_Dequeue_Newest(t) ==
    /\ tpc[t] = "get"
    /\ request_queue # <<>>
    /\ LET item == request_queue[Len(request_queue)]
           b == Append(batch[t], item[1])
           q == Append(result_queues[t], item[2])
       IN  IF BatchFull(b)
           THEN Dispatch(t, b, q, FALSE)
           ELSE /\ tpc' = [tpc EXCEPT ![t] = "top"]
                /\ batch' = [batch EXCEPT ![t] = b]
                /\ result_queues' = [result_queues EXCEPT ![t] = q]
                /\ UNCHANGED <<timeout_flag, bno, inBatch>>
    /\ request_queue' = SubSeq(request_queue, 1, Len(request_queue) - 1)
    /\ UNCHANGED <<cfgVars, running, worker_thread, metrics, starting, results, di,
                   elapsed, callerVars, hist, age, raised, stopCalled>>

\* Lines 63-71: request_queue.get returns an item.
Loop_Dequeue(t) ==
    /\ tpc[t] = "get"
    /\ request_queue # <<>>
    /\ LET item == Head(request_queue)
           b == Append(batch[t], item[1])
           q == Append(result_queues[t], item[2])
       IN  IF BatchFull(b)
           THEN Dispatch(t, b, q, FALSE)
           ELSE /\ tpc' = [tpc EXCEPT ![t] = "top"]
                /\ batch' = [batch EXCEPT ![t] = b]
                /\ result_queues' = [result_queues EXCEPT ![t] = q]
                /\ UNCHANGED <<timeout_flag, bno, inBatch>>
    /\ request_queue' = Tail(request_queue)
    /\ UNCHANGED <<cfgVars, running, worker_thread, metrics, starting, results, di,
                   elapsed, callerVars, hist, age, raised, stopCalled>>

\* A wait that never ends before an item arrives (no timeout passed to get).
WaitOver_Never(t) == elapsed[t] > timeout_ms

\* Lines 60-61: the wait of request_queue.get is over.
WaitOver(t) == elapsed[t] >= timeout_ms

\* Lines 73-78: request_queue.get raises Empty.
Loop_Empty(t) ==
    /\ tpc[t] = "get"
    /\ request_queue = <<>>
    /\ WaitOver(t)
    /\ IF batch[t] # <<>>
       THEN /\ Dispatch(t, batch[t], result_queues[t], TRUE)
            /\ UNCHANGED elapsed
       ELSE /\ tpc' = [tpc EXCEPT ![t] = "top"]
            /\ elapsed' = [elapsed EXCEPT ![t] = 0]
            /\ UNCHANGED <<batch, result_queues, timeout_flag, bno, inBatch>>
    /\ UNCHANGED <<cfgVars, running, worker_thread, request_queue, metrics, starting,
                   results, di, callerVars, hist, age, raised, stopCalled>>

\* ------------------------------------------------------------ _process_batch
\* What process_fn computes for one request, and the list it returns for a
\* batch when it returns k items (k may differ from len(batch)).
Response(req) == <<"result", req>>
Returned(b, k) == [i \in 1..k |-> IF i <= Len(b) THEN Response(b[i]) ELSE Response(0)]

\* The pairs of zip(results, result_queues), line 94.
ZipLen(t) == Min(Len(results[t]), Len(result_queues[t]))
\* The pairing of line 94 with the results taken from the far end.
ZipResult_Reversed(t, i) == results[t][ZipLen(t) + 1 - i]
ZipResult(t, i) == results[t][i]

\* Queue(maxsize=1).put: blocks while the queue is full.
CanPut(q) == Len(slot[q]) < 1

\* Back in the loop after _process_batch: lines 70-71 or 77-78.
BackToLoop(t) ==
    /\ tpc' = [tpc EXCEPT ![t] = "top"]
    /\ batch' = [batch EXCEPT ![t] = <<>>]
    /\ result_queues' = [result_queues EXCEPT ![t] = <<>>]
    /\ results' = [results EXCEPT ![t] = <<>>]
    /\ elapsed' = [elapsed EXCEPT ![t] = 0]
    /\ di' = [di EXCEPT ![t] = 0]
    /\ timeout_flag' = [timeout_flag EXCEPT ![t] = FALSE]
    /\ bno' = [bno EXCEPT ![t] = 0]

\* Lines 87-91: process_fn returns a list of k items.
Compute_Return(t, k) ==
    /\ tpc[t] = "compute"
    /\ results' = [results EXCEPT ![t] = Returned(batch[t], k)]
    /\ IF Min(k, Len(result_queues[t])) = 0
       THEN /\ tpc' = [tpc EXCEPT ![t] = "metrics"]
            /\ UNCHANGED di
       ELSE /\ tpc' = [tpc EXCEPT ![t] = "deliver"]
            /\ di' = [di EXCEPT ![t] = 1]
    /\ UNCHANGED <<cfgVars, running, worker_thread, request_queue, metrics, starting,
                   batch, result_queues, timeout_flag, elapsed, bno, callerVars,
                   histVars>>

\* The puts of lines 94-95 followed by an exception inside the try block: the
\* handler of lines 109-111 then writes every result_queue of the batch again.
Deliver_Put_ThenError(t) ==
    /\ tpc[t] = "deliver"
    /\ LET q == result_queues[t][di[t]] IN
        /\ CanPut(q)
        /\ slot' = [slot EXCEPT ![q] = Append(@, ZipResult(t, di[t]))]
        /\ hist' = [hist EXCEPT ![q] = Append(@, ZipResult(t, di[t]))]
        /\ age' = [age EXCEPT ![q] = 0]
    /\ IF di[t] = ZipLen(t)
       THEN tpc' = [tpc EXCEPT ![t] = "error"] /\ di' = [di EXCEPT ![t] = 1]
       ELSE di' = [di EXCEPT ![t] = @ + 1] /\ UNCHANGED tpc
    /\ UNCHANGED <<cfgVars, running, worker_thread, request_queue, metrics, starting,
                   batch, result_queues, results, timeout_flag, elapsed, bno, cpc,
                   received, inBatch, raised, stopCalled>>

\* Lines 94-95: one put of the loop over zip(results, result_queues).
Deliver_Put(t) ==
    /\ tpc[t] = "deliver"
    /\ LET q == result_queues[t][di[t]] IN
        /\ CanPut(q)
        /\ slot' = [slot EXCEPT ![q] = Append(@, ZipResult(t, di[t]))]
        /\ hist' = [hist EXCEPT ![q] = Append(@, ZipResult(t, di[t]))]
        /\ age' = [age EXCEPT ![q] = 0]
    /\ IF di[t] = ZipLen(t)
       THEN tpc' = [tpc EXCEPT ![t] = "metrics"] /\ UNCHANGED di
       ELSE di' = [di EXCEPT ![t] = @ + 1] /\ UNCHANGED tpc
    /\ UNCHANGED <<cfgVars, running, worker_thread, request_queue, metrics, starting,
                   batch, result_queues, results, timeout_flag, elapsed, bno, cpc,
                   received, inBatch, raised, stopCalled>>

\* Lines 96-107, under the lock; then the return to the loop.
Metrics_Update(t) ==
    /\ tpc[t] = "metrics"
    /\ LET n == metrics.total_batches + 1
           batch_size == Len(batch[t])
           avg == metrics.avg_batch_size
       IN  metrics' = [metrics EXCEPT
               !.total_batches = n,
               !.avg_batch_size = Frac(avg[1] * (n - 1) + batch_size * avg[2], avg[2] * n),
               !.timeout_batches = IF timeout_flag[t] THEN @ + 1 ELSE @,
               !.full_batches = IF timeout_flag[t] THEN @ ELSE @ + 1]
    /\ BackToLoop(t)
    /\ UNCHANGED <<cfgVars, running, worker_thread, request_queue, starting,
                   callerVars, histVars>>

\* process_fn raises and nothing catches it: the thread dies with its batch.
Compute_Raise_Unhandled(t) ==
    /\ tpc[t] = "compute"
    /\ raised' = raised \cup {bno[t]}
    /\ tpc' = [tpc EXCEPT ![t] = "exited"]
    /\ batch' = [batch EXCEPT ![t] = <<>>]
    /\ result_queues' = [result_queues EXCEPT ![t] = <<>>]
    /\ bno' = [bno EXCEPT ![t] = 0]
    /\ UNCHANGED <<cfgVars, running, worker_thread, request_queue, metrics, starting,
                   results, timeout_flag, di, elapsed, callerVars, hist, age,
                   inBatch, stopCalled>>

\* Line 109: process_fn raises (or its result cannot be iterated).
Compute_Raise(t) ==
    /\ tpc[t] = "compute"
    /\ raised' = raised \cup {bno[t]}
    /\ tpc' = [tpc EXCEPT ![t] = "error"]
    /\ di' = [di EXCEPT ![t] = 1]
    /\ UNCHANGED <<cfgVars, running, worker_thread, request_queue, metrics, starting,
                   batch, result_queues, results, timeout_flag, elapsed, bno,
                   callerVars, hist, age, inBatch, stopCalled>>

\* The value put for a batch whose process_fn raised, line 111.
ErrorOf(t) == <<"error", bno[t]>>

\* Lines 110-111: one put of the loop over result_queues; then back to the loop.
Error_Put(t) ==
    /\ tpc[t] = "error"
    /\ LET q == result_queues[t][di[t]] IN
        /\ CanPut(q)
        /\ slot' = [slot EXCEPT ![q] = Append(@, ErrorOf(t))]
        /\ hist' = [hist EXCEPT ![q] = Append(@, ErrorOf(t))]
        /\ age' = [age EXCEPT ![q] = 0]
    /\ IF di[t] = Len(result_queues[t])
       THEN BackToLoop(t)
       ELSE /\ di' = [di EXCEPT ![t] = @ + 1]
            /\ UNCHANGED <<tpc, batch, result_queues, results, elapsed,
                           timeout_flag, bno>>
    /\ UNCHANGED <<cfgVars, running, worker_thread, request_queue, metrics, starting,
                   cpc, received, inBatch, raised, stopCalled>>

\* ------------------------------------------------------------ time
\* A thread that can take a step now.
Urgent(t) ==
    \/ tpc[t] \in {"top", "deliver", "metrics", "error"}
    \/ tpc[t] = "get" /\ (request_queue # <<>> \/ WaitOver(t))

\* A request that was put in request_queue and whose result_queue has not
\* been written yet.
Pending(r) == cpc[r] # "new" /\ hist[r] = <<>>

\* One tick passes: the threads blocked in request_queue.get have waited one
\* more tick, the pending requests are one tick older.
Tick ==
    /\ \A t \in Threads : ~Urgent(t)
    /\ elapsed' = [t \in Threads |->
                     IF tpc[t] = "get" THEN Min(elapsed[t] + 1, timeout_ms) ELSE elapsed[t]]
    /\ age' = [r \in Reqs |->
                 IF Pending(r) THEN Min(age[r] + 1, timeout_ms + 1) ELSE age[r]]
    /\ UNCHANGED <<cfgVars, running, worker_thread, request_queue, metrics, starting,
                   tpc, batch, result_queues, results, timeout_flag, di, bno,
                   callerVars, hist, inBatch, raised, stopCalled>>

\* ------------------------------------------------------------ ConsistentHash
\* The keys that are hashed: f"{node}#{i}", a request_id chosen by a client,
\* and the fallback f'req_{n}' of gateway.py line 26.
VKey(node, i) == <<"vnode", node, i>>
IdKey(id) == <<"id", id>>
ReqKey(n) == <<"req", n>>
Keys ==
    {VKey(n, i) : n \in Nodes, i \in 0..(MaxVirtual - 1)}
        \cup {IdKey(id) : id \in ClientIds} \cup {ReqKey(n) : n \in 1..MaxRoutes}

\* sorted(S) for a set of hashes.
RECURSIVE Sorted(_)
Sorted(S) ==
    IF S = {} THEN <<>>
    ELSE LET m == CHOOSE x \in S : \A y \in S : x <= y
         IN  <<m>> \o Sorted(S \ {m})

\* ConsistentHash.__init__, lines 6-9.
EmptyRing(V) ==
    [virtual_nodes |-> V, ring |-> <<>>, sorted_keys |-> <<>>, nodes |-> {}]

\* add_node without the sort of line 25: new positions go to the end of
\* sorted_keys.
add_node_Unsorted(ch, node, H) ==
    IF node \in ch.nodes THEN ch
    ELSE LET hs == {H[VKey(node, i)] : i \in 0..(ch.virtual_nodes - 1)}
             newring == [h \in (DOMAIN ch.ring) \cup hs |->
                            IF h \in hs THEN node ELSE ch.ring[h]]
         IN  [ch EXCEPT !.nodes = @ \cup {node},
                        !.ring = newring,
                        !.sorted_keys = @ \o Sorted(hs \ DOMAIN ch.ring)]

\* add_node without the test of lines 18-19.
add_node_Again(ch, node, H) ==
    LET hs == {H[VKey(node, i)] : i \in 0..(ch.virtual_nodes - 1)}
        newring == [h \in (DOMAIN ch.ring) \cup hs |->
                       IF h \in hs THEN node ELSE ch.ring[h]]
    IN  [ch EXCEPT !.nodes = @ \cup {node},
                   !.ring = newring,
                   !.sorted_keys = Sorted(DOMAIN newring)]

\* add_node, lines 17-25, under the hash function H.
add_node(ch, node, H) ==
    IF node \in ch.nodes THEN ch
    ELSE LET hs == {H[VKey(node, i)] : i \in 0..(ch.virtual_nodes - 1)}
             newring == [h \in (DOMAIN ch.ring) \cup hs |->
                            IF h \in hs THEN node ELSE ch.ring[h]]
         IN  [ch EXCEPT !.nodes = @ \cup {node},
                        !.ring = newring,
                        !.sorted_keys = Sorted(DOMAIN newring)]

\* ConsistentHash.__init__, lines 10-12.
RECURSIVE AddAll(_, _, _)
AddAll(ch, list, H) ==
    IF list = <<>> THEN ch
    ELSE AddAll(add_node(ch, Head(list), H), Tail(list), H)

\* bisect_left in place of bisect_right: the insertion point before the
\* entries equal to x.
bisect_left(a, x) == Cardinality({i \in 1..Len(a) : a[i] < x})

\* bisect_right on a sorted list: the number of items <= x.
bisect_right(a, x) == Cardinality({i \in 1..Len(a) : a[i] <= x})

\* get_node without the wrap of lines 47-48.
get_node_NoWrap(ch, hash_value) ==
    IF DOMAIN ch.ring = {} THEN NoNode
    ELSE LET index == bisect_right(ch.sorted_keys, hash_value)
         IN  IF index = Len(ch.sorted_keys) THEN NoNode
             ELSE ch.ring[ch.sorted_keys[index + 1]]

\* get_node, lines 41-50, for a key whose hash is hash_value.
get_node(ch, hash_value) ==
    IF DOMAIN ch.ring = {} THEN NoNode
    ELSE LET index == bisect_right(ch.sorted_keys, hash_value)
             wrapped == IF index = Len(ch.sorted_keys) THEN 0 ELSE index
         IN  ch.ring[ch.sorted_keys[wrapped + 1]]

\* ------------------------------------------------------------ Gateway
\* The orders in which a list can hold the members of a set.
Orders(S) ==
    {o \in [1..Cardinality(S) -> S] : \A i, j \in 1..Cardinality(S) : o[i] = o[j] => i = j}

\* What urlopen followed by json.loads does with a worker (lines 41-42 and
\* 55-56): "ok" is a JSON response; "urlerror" is a URLError (the connection
\* is refused, the connect times out, the worker replies HTTP 500); "timeout"
\* is the worker accepting the connection and not replying within 10 s, or
\* dropping it, which http.client raises as TimeoutError or
\* ConnectionResetError, neither a URLError; "badjson" is a reply that
\* json.loads rejects with a ValueError.
Outcomes == {"ok", "urlerror", "timeout", "badjson"}
TransportErrors == {"urlerror", "timeout"}

\* Gateway.__init__, lines 11-13: k workers, V virtual nodes each (150 in
\* the program), the hash of every virtual node.
GWInit ==
    /\ \E k \in 0..MaxNodes : \E V \in 1..MaxVirtual :
        /\ k * V <= MaxRing
        /\ workers = [i \in 1..k |-> i]
        /\ \E g \in [{VKey(n, i) : n \in 1..k, i \in 0..(V - 1)} -> HashRange] :
            /\ hashv = [key \in Keys |-> IF key \in DOMAIN g THEN g[key] ELSE NoHash]
            /\ hash_ring = AddAll(EmptyRing(V), workers, hashv)
    /\ node_order \in Orders(hash_ring.nodes)
    /\ health \in [hash_ring.nodes -> Outcomes]
    /\ request_count = 0
    /\ rpc = [c \in Calls |-> "idle"]
    /\ rid = [c \in Calls |-> NoId]
    /\ rtmp = [c \in Calls |-> 0]
    /\ target_node = [c \in Calls |-> NoNode]
    /\ ridx = [c \in Calls |-> 0]
    /\ answers = [c \in Calls |-> <<>>]
    /\ rresult = [c \in Calls |-> <<>>]

\* No Gateway in the run.
GWNone ==
    /\ hashv = [key \in Keys |-> NoHash]
    /\ workers = <<>>
    /\ hash_ring = EmptyRing(1)
    /\ node_order = <<>>
    /\ health = <<>>
    /\ request_count = 0
    /\ rpc = [c \in Calls |-> "idle"]
    /\ rid = [c \in Calls |-> NoId]
    /\ rtmp = [c \in Calls |-> 0]
    /\ target_node = [c \in Calls |-> NoNode]
    /\ ridx = [c \in Calls |-> 0]
    /\ answers = [c \in Calls |-> <<>>]
    /\ rresult = [c \in Calls |-> <<>>]

\* What route_request returns or raises.
ResponseOf(node) == <<"response", node>>
NoWorkers == <<"raise", "No workers available">>
AllFailed == <<"raise", "All workers failed">>
Propagated(outcome) == <<"raise", outcome>>

\* Line 24, the read of self.request_count; the request carries the
\* request_id id, or none.  Calls are numbered in the order they begin.
Route_Read(c, id) ==
    /\ rpc[c] = "idle"
    /\ IF c = 1 THEN TRUE ELSE rpc[c - 1] # "idle"
    /\ rid' = [rid EXCEPT ![c] = id]
    /\ rtmp' = [rtmp EXCEPT ![c] = request_count]
    /\ rpc' = [rpc EXCEPT ![c] = "incr"]
    /\ UNCHANGED <<bpVars, health, hashv, workers, hash_ring, node_order, request_count,
                   target_node, ridx, answers, rresult>>

\* HTTPServer (line 121) handles one request at a time: do_POST calls
\* route_request when no other call is under way.
Serve(c, id) ==
    /\ \A d \in Calls \ {c} : rpc[d] \in {"idle", "done"}
    /\ Route_Read(c, id)

\* Line 24, the write of self.request_count.
Route_Incr(c) ==
    /\ rpc[c] = "incr"
    /\ request_count' = rtmp[c] + 1
    /\ rpc' = [rpc EXCEPT ![c] = "lookup"]
    /\ UNCHANGED <<bpVars, health, hashv, workers, hash_ring, node_order, rid, rtmp,
                   target_node, ridx, answers, rresult>>

\* The key of line 26 without the request_id of the request.
RouteKey_Counter(c) == ReqKey(request_count)

\* The key of line 26.
RouteKey(c) == IF rid[c] # NoId THEN IdKey(rid[c]) ELSE ReqKey(request_count)

\* Lines 26-27 without the test of lines 29-30: the request is sent to
\* whatever get_node returned.
Route_Lookup_Unchecked(c, h) ==
    /\ rpc[c] = "lookup"
    /\ hashv[RouteKey(c)] \in {NoHash, h}
    /\ hashv' = [hashv EXCEPT ![RouteKey(c)] = h]
    /\ LET node == get_node(hash_ring, h) IN
        /\ target_node' = [target_node EXCEPT ![c] = node]
        /\ IF node = NoNode
           THEN /\ answers' = [answers EXCEPT ![c] = <<<<node, "urlerror">>>>]
                /\ rresult' = [rresult EXCEPT ![c] = AllFailed]
                /\ rpc' = [rpc EXCEPT ![c] = "done"]
           ELSE /\ rpc' = [rpc EXCEPT ![c] = "primary"]
                /\ UNCHANGED <<rresult, answers>>
    /\ rtmp' = [rtmp EXCEPT ![c] = request_count]
    /\ UNCHANGED <<bpVars, health, workers, hash_ring, node_order, request_count, rid, ridx>>

\* Lines 26-30: the key is hashed to h (as before when it was hashed before);
\* rtmp keeps the counter value that line 26 read.
Route_Lookup(c, h) ==
    /\ rpc[c] = "lookup"
    /\ hashv[RouteKey(c)] \in {NoHash, h}
    /\ hashv' = [hashv EXCEPT ![RouteKey(c)] = h]
    /\ LET node == get_node(hash_ring, h) IN
        /\ target_node' = [target_node EXCEPT ![c] = node]
        /\ IF node = NoNode
           THEN /\ rresult' = [rresult EXCEPT ![c] = NoWorkers]
                /\ rpc' = [rpc EXCEPT ![c] = "done"]
           ELSE /\ rpc' = [rpc EXCEPT ![c] = "primary"]
                /\ UNCHANGED rresult
    /\ rtmp' = [rtmp EXCEPT ![c] = request_count]
    /\ UNCHANGED <<bpVars, health, workers, hash_ring, node_order, request_count, rid, ridx,
                   answers>>

\* Lines 40-46: the forward to target_node; only URLError is caught.
Route_Primary(c) ==
    /\ rpc[c] = "primary"
    /\ LET outcome == health[target_node[c]] IN
      /\ answers' = [answers EXCEPT ![c] = Append(@, <<target_node[c], outcome>>)]
      /\ CASE outcome = "ok" ->
                /\ rresult' = [rresult EXCEPT ![c] = ResponseOf(target_node[c])]
                /\ rpc' = [rpc EXCEPT ![c] = "done"]
                /\ UNCHANGED ridx
           [] outcome = "urlerror" ->
                /\ rpc' = [rpc EXCEPT ![c] = "failover"]
                /\ ridx' = [ridx EXCEPT ![c] = 1]
                /\ UNCHANGED rresult
           [] OTHER ->
                /\ rresult' = [rresult EXCEPT ![c] = Propagated(outcome)]
                /\ rpc' = [rpc EXCEPT ![c] = "done"]
                /\ UNCHANGED ridx
    /\ UNCHANGED <<bpVars, health, hashv, workers, hash_ring, node_order, request_count, rid,
                   rtmp, target_node>>

\* Lines 47-48: the node of this iteration is target_node, nothing is sent.
Route_Skip(c) ==
    /\ rpc[c] = "failover"
    /\ ridx[c] <= Len(node_order)
    /\ node_order[ridx[c]] = target_node[c]
    /\ ridx' = [ridx EXCEPT ![c] = @ + 1]
    /\ UNCHANGED <<bpVars, health, hashv, workers, hash_ring, node_order, request_count, rpc,
                   rid, rtmp, target_node, answers, rresult>>

\* The retry loop without the test of line 48.
Route_Retry_Any(c) ==
    /\ rpc[c] = "failover"
    /\ ridx[c] <= Len(node_order)
    /\ LET node == node_order[ridx[c]]
           ok == health[node] = "ok" IN
        /\ answers' = [answers EXCEPT ![c] = Append(@, <<node, health[node]>>)]
        /\ IF ok
           THEN /\ rresult' = [rresult EXCEPT ![c] = ResponseOf(node)]
                /\ rpc' = [rpc EXCEPT ![c] = "done"]
                /\ UNCHANGED ridx
           ELSE /\ ridx' = [ridx EXCEPT ![c] = @ + 1]
                /\ UNCHANGED <<rpc, rresult>>
    /\ UNCHANGED <<bpVars, health, hashv, workers, hash_ring, node_order, request_count, rid,
                   rtmp, target_node>>

\* Lines 49-60: the forward to another node; any exception is swallowed.
Route_Retry(c) ==
    /\ rpc[c] = "failover"
    /\ ridx[c] <= Len(node_order)
    /\ node_order[ridx[c]] # target_node[c]
    /\ LET node == node_order[ridx[c]]
           ok == health[node] = "ok" IN
        /\ answers' = [answers EXCEPT ![c] = Append(@, <<node, health[node]>>)]
        /\ IF ok
           THEN /\ rresult' = [rresult EXCEPT ![c] = ResponseOf(node)]
                /\ rpc' = [rpc EXCEPT ![c] = "done"]
                /\ UNCHANGED ridx
           ELSE /\ ridx' = [ridx EXCEPT ![c] = @ + 1]
                /\ UNCHANGED <<rpc, rresult>>
    /\ UNCHANGED <<bpVars, health, hashv, workers, hash_ring, node_order, request_count, rid,
                   rtmp, target_node>>

\* Line 62: the loop is over.
Route_AllFailed(c) ==
    /\ rpc[c] = "failover"
    /\ ridx[c] > Len(node_order)
    /\ rresult' = [rresult EXCEPT ![c] = AllFailed]
    /\ rpc' = [rpc EXCEPT ![c] = "done"]
    /\ UNCHANGED <<bpVars, health, hashv, workers, hash_ring, node_order, request_count, rid,
                   rtmp, target_node, ridx, answers>>

NextGW ==
    \/ \E c \in Calls : \E id \in ClientIds \cup {NoId} : Serve(c, id)
    \/ \E c \in Calls : Route_Incr(c)
    \/ \E c \in Calls : \E h \in HashRange : Route_Lookup(c, h)
    \/ \E c \in Calls : Route_Primary(c)
    \/ \E c \in Calls : Route_Skip(c)
    \/ \E c \in Calls : Route_Retry(c)
    \/ \E c \in Calls : Route_AllFailed(c)

\* A Gateway and no BatchProcessor: gateway.py imports none.
InitGW == BPNone /\ GWInit

SpecGW == InitGW /\ [][NextGW]_vars

\* ------------------------------------------------------------ concurrent calls
\* route_request called by several threads at once, as a threading server
\* would: nothing in route_request waits for another call.
NextGWThreads ==
    \/ \E c \in Calls : \E id \in ClientIds \cup {NoId} : Route_Read(c, id)
    \/ \E c \in Calls : Route_Incr(c)
    \/ \E c \in Calls : \E h \in HashRange : Route_Lookup(c, h)
    \/ \E c \in Calls : Route_Primary(c)
    \/ \E c \in Calls : Route_Skip(c)
    \/ \E c \in Calls : Route_Retry(c)
    \/ \E c \in Calls : Route_AllFailed(c)

InitGWThreads == InitGW /\ Len(workers) <= MaxThreadedNodes

SpecGWThreads == InitGWThreads /\ [][NextGWThreads]_vars

\* ------------------------------------------------------------ workers come and go
\* Between two calls a worker goes down, hangs or comes back: what urlopen
\* (lines 41 and 55) meets from then on.
Worker_Change(n, o) ==
    /\ n \in DOMAIN health
    /\ health[n] # o
    /\ \A c \in Calls : rpc[c] \in {"idle", "done"}
    /\ health' = [health EXCEPT ![n] = o]
    /\ UNCHANGED <<bpVars, hashv, workers, hash_ring, node_order, request_count, rpc, rid,
                   rtmp, target_node, ridx, answers, rresult>>

NextGWChurn ==
    \/ NextGW
    \/ \E n \in Nodes : \E o \in Outcomes : Worker_Change(n, o)

InitGWChurn == InitGW /\ Len(workers) <= MaxChurnNodes

SpecGWChurn == InitGWChurn /\ [][NextGWChurn]_vars

\* ------------------------------------------------------------ the ring alone
\* remove_node without the rebuild of line 39.
remove_node_Stale(ch, node, H) ==
    IF node \notin ch.nodes THEN ch
    ELSE LET hs == {H[VKey(node, i)] : i \in 0..(ch.virtual_nodes - 1)}
             newring == [h \in (DOMAIN ch.ring) \ hs |-> ch.ring[h]]
         IN  [ch EXCEPT !.nodes = @ \ {node},
                        !.ring = newring]

\* remove_node, lines 27-39, under the hash function H: the positions of the
\* node's virtual keys are deleted whoever owns them.
remove_node(ch, node, H) ==
    IF node \notin ch.nodes THEN ch
    ELSE LET hs == {H[VKey(node, i)] : i \in 0..(ch.virtual_nodes - 1)}
             newring == [h \in (DOMAIN ch.ring) \ hs |-> ch.ring[h]]
         IN  [ch EXCEPT !.nodes = @ \ {node},
                        !.ring = newring,
                        !.sorted_keys = Sorted(DOMAIN newring)]

\* A ConsistentHash() with V virtual nodes per node, md5 being any function
\* on the virtual keys; no Gateway call is under way.
InitRing ==
    /\ BPNone
    /\ \E V \in 1..MaxVirtual :
        /\ hash_ring = EmptyRing(V)
        /\ \E g \in [{VKey(n, i) : n \in Nodes, i \in 0..(V - 1)} -> HashRange] :
              hashv = [key \in Keys |-> IF key \in DOMAIN g THEN g[key] ELSE NoHash]
    /\ workers = <<>>
    /\ node_order = <<>>
    /\ health = <<>>
    /\ request_count = 0
    /\ rpc = [c \in Calls |-> "idle"]
    /\ rid = [c \in Calls |-> NoId]
    /\ rtmp = [c \in Calls |-> 0]
    /\ target_node = [c \in Calls |-> NoNode]
    /\ ridx = [c \in Calls |-> 0]
    /\ answers = [c \in Calls |-> <<>>]
    /\ rresult = [c \in Calls |-> <<>>]

ringRest ==
    <<bpVars, hashv, workers, node_order, health, request_count, rpc, rid, rtmp,
      target_node, ridx, answers, rresult>>

Ring_Add(node) ==
    /\ hash_ring' = add_node(hash_ring, node, hashv)
    /\ UNCHANGED ringRest

Ring_Remove(node) ==
    /\ hash_ring' = remove_node(hash_ring, node, hashv)
    /\ UNCHANGED ringRest

NextRing ==
    \/ \E node \in Nodes : Ring_Add(node)
    \/ \E node \in Nodes : Ring_Remove(node)

SpecRing == InitRing /\ [][NextRing]_vars

\* ------------------------------------------------------------ specification
Init == BPInit /\ GWNone

Next ==
    \/ Start_Check
    \/ Start_Return
    \/ Start_Spawn
    \/ Stop
    \/ \E r \in Reqs : Process_Put(r)
    \/ \E r \in Reqs : Process_Count(r)
    \/ \E r \in Reqs : Process_Return(r)
    \/ \E r \in Reqs : Process_Timeout(r)
    \/ \E t \in Threads : Loop_Check(t)
    \/ \E t \in Threads : Loop_Dequeue(t)
    \/ \E t \in Threads : Loop_Empty(t)
    \/ \E t \in Threads : \E k \in 0..(Len(batch[t]) + 1) : Compute_Return(t, k)
    \/ \E t \in Threads : Compute_Raise(t)
    \/ \E t \in Threads : Deliver_Put(t)
    \/ \E t \in Threads : Error_Put(t)
    \/ \E t \in Threads : Metrics_Update(t)
    \/ Tick

Spec == Init /\ [][Next]_vars

\* ------------------------------------------------------------ a running coalescer
\* The coalescer is started and never stopped, requests are submitted once it
\* runs, and process_fn keeps its contract: it returns len(batch) items or
\* raises.  The scheduler is fair to every dispatch thread, process_fn ends,
\* time passes.
ThreadStep(t) ==
    \/ Loop_Check(t)
    \/ Loop_Dequeue(t)
    \/ Loop_Empty(t)
    \/ Deliver_Put(t)
    \/ Error_Put(t)
    \/ Metrics_Update(t)

ComputeEnds(t) ==
    \/ Compute_Return(t, Len(batch[t]))
    \/ Compute_Raise(t)

NextRunning ==
    \/ Start_Check
    \/ Start_Return
    \/ Start_Spawn
    \/ \E r \in Reqs : running /\ Process_Put(r)
    \/ \E r \in Reqs : Process_Count(r)
    \/ \E r \in Reqs : Process_Return(r)
    \/ \E r \in Reqs : Process_Timeout(r)
    \/ \E t \in Threads : ThreadStep(t)
    \/ \E t \in Threads : ComputeEnds(t)
    \/ Tick

SpecRunning ==
    /\ Init
    /\ [][NextRunning]_vars
    /\ \A t \in Threads : WF_vars(ThreadStep(t))
    /\ \A t \in Threads : WF_vars(ComputeEnds(t))
    /\ WF_vars(Tick)

\* ------------------------------------------------------------ shutdown
\* Callers stop submitting once stop() was called: every request of such a
\* run was enqueued before the stop.
NextShutdown ==
    \/ Start_Check
    \/ Start_Return
    \/ Start_Spawn
    \/ Stop
    \/ \E r \in Reqs : ~stopCalled /\ Process_Put(r)
    \/ \E r \in Reqs : Process_Count(r)
    \/ \E r \in Reqs : Process_Return(r)
    \/ \E r \in Reqs : Process_Timeout(r)
    \/ \E t \in Threads : ThreadStep(t)
    \/ \E t \in Threads : \E k \in 0..(Len(batch[t]) + 1) : Compute_Return(t, k)
    \/ \E t \in Threads : Compute_Raise(t)
    \/ Tick

SpecShutdown == Init /\ [][NextShutdown]_vars

\* ------------------------------------------------------------ a last stop
\* stop() is called while no start() call is under way and no start() is
\* called after it; callers may go on submitting.  The scheduler is fair to
\* every dispatch thread, every call of process_fn returns or raises, time
\* passes.
ComputeOver(t) ==
    \/ \E k \in 0..(Len(batch[t]) + 1) : Compute_Return(t, k)
    \/ Compute_Raise(t)

NextLastStop ==
    \/ ~stopCalled /\ Start_Check
    \/ ~stopCalled /\ Start_Return
    \/ ~stopCalled /\ Start_Spawn
    \/ starting = 0 /\ Stop
    \/ \E r \in Reqs : Process_Put(r)
    \/ \E r \in Reqs : Process_Count(r)
    \/ \E r \in Reqs : Process_Return(r)
    \/ \E r \in Reqs : Process_Timeout(r)
    \/ \E t \in Threads : ThreadStep(t)
    \/ \E t \in Threads : ComputeOver(t)
    \/ Tick

SpecLastStop ==
    /\ Init
    /\ [][NextLastStop]_vars
    /\ \A t \in Threads : WF_vars(ThreadStep(t))
    /\ \A t \in Threads : WF_vars(ComputeOver(t))
    /\ WF_vars(Tick)

\* ------------------------------------------------------------ claims
Enqueued(r) == cpc[r] # "new"
InQueue(r) == \E i \in 1..Len(request_queue) : request_queue[i][2] = r
HeldBy(t, r) == tpc[t] \notin {"unborn", "exited"} /\ r \in Elems(result_queues[t])
\* No step of the program will write the result_queue of r any more.
Settled(r) == Enqueued(r) /\ ~InQueue(r) /\ \A t \in Threads : ~HeldBy(t, r)
Handed(t) == tpc[t] \in {"compute", "deliver", "metrics", "error"}

\* C1: the result_queue of every enqueued request is written exactly once:
\* never twice, and once nothing of the program holds the request any more
\* (it left request_queue and no dispatch thread has it) it has been written.
C1_ExactlyOnce ==
    \A r \in Reqs :
        /\ Len(hist[r]) <= 1
        /\ Settled(r) => Len(hist[r]) = 1

\* C2: every batch handed to process_fn has between 1 and max_batch_size
\* requests.
C2_BatchSizeBound ==
    \A t \in Threads :
        Handed(t) => (1 <= Len(batch[t]) /\ Len(batch[t]) <= max_batch_size)

C2_Witness ==
    \E t \in Threads :
        tpc[t] = "compute" /\ Len(batch[t]) = MaxBatchSize /\ ~timeout_flag[t]

\* C3: a result put in the result_queue of a request, and a result a caller
\* returns, is the response computed for that very request; and once the
\* puts of a batch are over, the caller of batch[i] has been given results[i]
\* for every i both lists have.
C3_IndexAlignment ==
    /\ \A r \in Reqs : \A i \in 1..Len(hist[r]) :
            hist[r][i][1] = "result" => hist[r][i] = Response(r)
    /\ \A r \in Reqs :
            (received[r] # <<>> /\ received[r][1][1] = "result")
                => received[r][1] = Response(r)
    /\ \A t \in Threads : tpc[t] = "metrics" =>
            \A i \in 1..Min(Len(results[t]), Len(batch[t])) :
                hist[batch[t][i]] = <<results[t][i]>>

C3_Witness ==
    \E r \in Reqs :
        /\ cpc[r] = "got"
        /\ received[r] = <<Response(r)>>
        /\ inBatch[r] # r

BatchOf(r) == {x \in Reqs : inBatch[x] = inBatch[r]}

\* C4: on a running coalescer whose process_fn returns len(batch) items or
\* raises, every enqueued request is eventually dispatched in a batch and its
\* result_queue is eventually written.
C4_EventualCompletion ==
    \A r \in Reqs : Enqueued(r) ~> (inBatch[r] # 0 /\ hist[r] # <<>>)

\* A request that was dispatched alone, by the timeout, where two fit.
C4_Witness ==
    \E r \in Reqs :
        /\ cpc[r] = "got"
        /\ BatchOf(r) = {r}
        /\ max_batch_size > 1
        /\ metrics.timeout_batches > 0

\* C5: a request is at most timeout_ms old when its batch is handed to
\* process_fn.
C5_LatencyBound ==
    [][\A t \in Threads :
          (tpc[t] # "compute" /\ tpc'[t] = "compute")
              => \A r \in Elems(batch'[t]) : age[r] <= timeout_ms]_vars

\* C6: an error is put only in the result_queues of the batch process_fn
\* raised on; once the puts are over every request of that batch has that
\* error and nothing else; and the thread is back in its loop afterwards.
C6_ErrorsOfOwnBatch ==
    \A r \in Reqs : \A i \in 1..Len(hist[r]) :
        hist[r][i][1] = "error" =>
            (hist[r][i][2] = inBatch[r] /\ inBatch[r] \in raised)

C6_WholeBatchFailed ==
    \A b \in raised :
        \/ \E t \in Threads : tpc[t] = "error" /\ bno[t] = b
        \/ \A r \in Reqs : inBatch[r] = b => hist[r] = << <<"error", b>> >>

C6_ThreadSurvives ==
    \A t \in Threads : tpc[t] = "error" => tpc'[t] \in {"error", "top"}

C6_FailureContainment ==
    /\ [](C6_ErrorsOfOwnBatch /\ C6_WholeBatchFailed)
    /\ [][C6_ThreadSurvives]_vars

\* A batch failed as a whole and a request submitted later got its result.
C6_Witness ==
    \E b \in raised : \E r \in Reqs :
        /\ \A m \in Reqs : inBatch[m] = b => hist[m] = << <<"error", b>> >>
        /\ r > b
        /\ inBatch[r] \notin raised \cup {0}
        /\ received[r] = <<Response(r)>>

\* C7: once stop() was called on a started coalescer and its dispatch threads
\* have ended, every request that was enqueued and never dispatched has had
\* its result_queue written.
C7_StopDrains ==
    (stopCalled /\ Created # {} /\ Live = {} /\ ~running /\ starting = 0)
        => \A r \in Reqs : (Enqueued(r) /\ inBatch[r] = 0) => hist[r] # <<>>

\* C8: once stop() was called on a started coalescer, no step enqueues a
\* request and no step leaves the coalescer running.
C8_StoppedTerminal ==
    [][(stopCalled /\ Created # {}) =>
          /\ \A r \in Reqs : cpc[r] = "new" => cpc'[r] = "new"
          /\ ~running']_vars

\* C9: at most one dispatch thread is inside an iteration of the loop.
InLoop(t) == tpc[t] \in {"get", "compute", "deliver", "metrics", "error"}

C9_SingleDispatchTask == Cardinality({t \in Threads : InLoop(t)}) <= 1

\* ------------------------------------------------------------ C10
Members == hash_ring.nodes
Healthy(n) == health[n] = "ok"
Finished(c) == rpc[c] = "done" /\ target_node[c] # NoNode
Others(c) == Members \ {target_node[c]}
Succeeded(c) == \E n \in Members : rresult[c] = ResponseOf(n)

\* What failover owes a call whose primary failed: a response, from another
\* member that answers, exactly when there is such a member; the
\* all-workers-failed error when no member answers.
FailoverDone(c) ==
    /\ Succeeded(c) <=> \E n \in Others(c) : Healthy(n)
    /\ Succeeded(c) => \E n \in Others(c) : Healthy(n) /\ rresult[c] = ResponseOf(n)
    /\ (\A n \in Members : ~Healthy(n)) => rresult[c] = AllFailed

\* C10: when the forward to the primary worker chosen by the ring fails with a
\* transport error, route succeeds (returns a worker response) if and only if
\* at least one other ring member answers successfully; if every member fails,
\* route raises the all-workers-failed error.
C10_Failover ==
    \A c \in Calls :
        (Finished(c) /\ health[target_node[c]] \in TransportErrors) => FailoverDone(c)

\* The same for the transport errors that urllib raises as URLError.
C10_FailoverOnURLError ==
    \A c \in Calls :
        (Finished(c) /\ health[target_node[c]] = "urlerror") => FailoverDone(c)

\* ------------------------------------------------------------ C11
\* The forwards of call c after the one to the primary.
Retries(c) == IF answers[c] = <<>> THEN <<>> ELSE Tail(answers[c])

\* C11: within one route call each ring member is forwarded to at most once,
\* the primary (the first forward) is never forwarded to again, no forward
\* follows one that was answered, and the forwards after the primary attempt
\* number at most |workers| - 1.
C11_BoundedRetries ==
    \A c \in Calls :
        /\ \A i, j \in 1..Len(answers[c]) :
              answers[c][i][1] = answers[c][j][1] => i = j
        /\ answers[c] # <<>> => answers[c][1][1] = target_node[c]
        /\ \A i \in 1..Len(Retries(c)) : Retries(c)[i][1] # target_node[c]
        /\ \A i \in 1..Len(answers[c]) :
              answers[c][i][2] = "ok" => i = Len(answers[c])
        /\ answers[c] # <<>> => Len(Retries(c)) <= Len(workers) - 1

\* Every worker was forwarded to, the last of them answered.
C11_Witness ==
    \E c \in Calls :
        /\ rpc[c] = "done"
        /\ Len(answers[c]) = MaxNodes
        /\ Succeeded(c)

\* ------------------------------------------------------------ C12
\* Call c has chosen its primary.
Looked(c) == rpc[c] \in {"primary", "failover", "done"} /\ target_node[c] # NoNode
SameId(c, d) == rid[c] # NoId /\ rid[c] = rid[d]

\* C12 as stated: any two route calls carrying the same request_id that
\* return a response return it from the same worker.
C12_SameIdSameWorker ==
    \A c, d \in Calls :
        (SameId(c, d) /\ rpc[c] = "done" /\ rpc[d] = "done" /\ Succeeded(c) /\ Succeeded(d))
            => rresult[c] = rresult[d]

\* C12 amended: two route calls carrying the same request_id have the same
\* primary worker, and a response comes from another worker only after the
\* forward to the primary raised URLError.
C12_SameIdSamePrimary ==
    /\ \A c, d \in Calls :
          (SameId(c, d) /\ Looked(c) /\ Looked(d)) => target_node[c] = target_node[d]
    /\ \A c \in Calls :
          (rpc[c] = "done" /\ Succeeded(c)) =>
              \/ rresult[c] = ResponseOf(target_node[c])
              \/ answers[c][1] = <<target_node[c], "urlerror">>

\* Two calls with one request_id and one primary, answered by two workers.
C12_Witness ==
    \E c, d \in Calls :
        /\ SameId(c, d)
        /\ rpc[c] = "done" /\ rpc[d] = "done"
        /\ target_node[c] = target_node[d]
        /\ rresult[c] = ResponseOf(target_node[c])
        /\ Succeeded(d)
        /\ rresult[d] # rresult[c]

\* ------------------------------------------------------------ C13
\* C13: when no worker is registered, get_node returns no node for any key,
\* and a route call ends with the no-workers-available error without having
\* forwarded anything; that error is raised in no other case.
C13_EmptyRing ==
    /\ Members = {} => \A h \in HashRange : get_node(hash_ring, h) = NoNode
    /\ \A c \in Calls :
          (Members = {} /\ rpc[c] = "done") =>
              (rresult[c] = NoWorkers /\ answers[c] = <<>> /\ target_node[c] = NoNode)
    /\ \A c \in Calls : rresult[c] = NoWorkers => Members = {}

C13_Witness ==
    \E c \in Calls : rpc[c] = "done" /\ rresult[c] = NoWorkers /\ workers = <<>>

\* ------------------------------------------------------------ C14
\* The ring made by adding the members of list, in that order, to an empty
\* ring with as many virtual nodes as hash_ring has.
Built(list) == AddAll(EmptyRing(hash_ring.virtual_nodes), list, hashv)

VirtualKeys(n) == {VKey(n, i) : i \in 0..(hash_ring.virtual_nodes - 1)}

\* No two virtual nodes of different endpoints hash to the same position.
NoCrossCollision ==
    \A n, m \in Nodes : n # m =>
        \A kn \in VirtualKeys(n) : \A km \in VirtualKeys(m) : hashv[kn] # hashv[km]

\* C14 as stated: for the member set E of the ring, the rings built by adding
\* E in any two orders return the same endpoint for every key, collisions
\* included.
C14_RingDeterminism ==
    \A o1, o2 \in Orders(Members) : \A h \in HashRange :
        get_node(Built(o1), h) = get_node(Built(o2), h)

\* C14 amended: when no two virtual nodes of different endpoints collide, the
\* ring, whatever calls made it, returns for every key what the ring built by
\* adding its members in any order returns.
C14_DeterminismNoCollision ==
    NoCrossCollision =>
        \A o \in Orders(Members) : \A h \in HashRange :
            get_node(hash_ring, h) = get_node(Built(o), h)

C14_Witness ==
    /\ NoCrossCollision
    /\ Cardinality(Members) = MaxNodes
    /\ \E h1, h2 \in HashRange : get_node(hash_ring, h1) # get_node(hash_ring, h2)

\* ------------------------------------------------------------ C15
\* A key, given by its hash, whose lookup differs before and after the step.
Moved(h) == get_node(hash_ring, h) # get_node(hash_ring', h)

\* C15: in a step that adds an endpoint e every key whose lookup changes is
\* looked up as e afterwards, and in a step that removes e every such key was
\* looked up as e before; no key moves between two endpoints that are members
\* before and after the step.
C15_RingStability ==
    [][\A h \in HashRange :
          Moved(h) =>
              \/ get_node(hash_ring', h) \in hash_ring'.nodes \ hash_ring.nodes
              \/ get_node(hash_ring, h) \in hash_ring.nodes \ hash_ring'.nodes]_vars

\* The half of C15 about add_node.
C15_AddStability ==
    [][hash_ring.nodes \subseteq hash_ring'.nodes =>
          \A h \in HashRange :
              Moved(h) => get_node(hash_ring', h) \in hash_ring'.nodes \ hash_ring.nodes]_vars

\* C15 for an md5 without collisions between endpoints.
C15_StabilityNoCollision ==
    [][NoCrossCollision =>
          \A h \in HashRange :
              Moved(h) =>
                  \/ get_node(hash_ring', h) \in hash_ring'.nodes \ hash_ring.nodes
                  \/ get_node(hash_ring, h) \in hash_ring.nodes \ hash_ring'.nodes]_vars

\* ------------------------------------------------------------ C16
StrictlyIncreasing(a) == \A i \in 1..(Len(a) - 1) : a[i] < a[i + 1]

\* md5 takes a different value on every virtual key of every endpoint.
NoCollision ==
    \A n, m \in Nodes : \A kn \in VirtualKeys(n) : \A km \in VirtualKeys(m) :
        kn # km => hashv[kn] # hashv[km]

\* C16 as stated: sorted_keys has V entries per registered endpoint and is
\* strictly increasing.
C16_RingSize ==
    /\ Len(hash_ring.sorted_keys) = hash_ring.virtual_nodes * Cardinality(hash_ring.nodes)
    /\ StrictlyIncreasing(hash_ring.sorted_keys)

\* C16 amended: sorted_keys is strictly increasing, lists the positions of
\* the ring, has at most V entries per registered endpoint, and exactly V
\* when md5 has no collision on the virtual keys.
C16_RingSizeBound ==
    /\ StrictlyIncreasing(hash_ring.sorted_keys)
    /\ Elems(hash_ring.sorted_keys) = DOMAIN hash_ring.ring
    /\ Len(hash_ring.sorted_keys) <= hash_ring.virtual_nodes * Cardinality(hash_ring.nodes)
    /\ NoCollision =>
          Len(hash_ring.sorted_keys) = hash_ring.virtual_nodes * Cardinality(hash_ring.nodes)

C16_Witness ==
    /\ NoCollision
    /\ hash_ring.nodes = Nodes
    /\ Len(hash_ring.sorted_keys) = MaxNodes

\* ------------------------------------------------------------ C17
\* C17 as stated: lookup returns an endpoint exactly when an endpoint is
\* registered, and an endpoint it returns is registered.
C17_LookupTotal ==
    \A h \in HashRange :
        /\ get_node(hash_ring, h) # NoNode <=> hash_ring.nodes # {}
        /\ get_node(hash_ring, h) # NoNode => get_node(hash_ring, h) \in hash_ring.nodes

\* C17 amended: lookup returns an endpoint exactly when the ring has a
\* position, an endpoint it returns is registered, and without collisions
\* the ring has a position exactly when an endpoint is registered.
C17_LookupOnPositions ==
    /\ \A h \in HashRange :
          /\ get_node(hash_ring, h) # NoNode <=> hash_ring.sorted_keys # <<>>
          /\ get_node(hash_ring, h) # NoNode => get_node(hash_ring, h) \in hash_ring.nodes
    /\ hash_ring.sorted_keys # <<>> => hash_ring.nodes # {}
    /\ NoCrossCollision => (hash_ring.nodes # {} => hash_ring.sorted_keys # <<>>)

\* All endpoints but one are registered and lookup returns two of them.
C17_Witness ==
    /\ Cardinality(hash_ring.nodes) = MaxNodes - 1
    /\ \A h \in HashRange : get_node(hash_ring, h) \in hash_ring.nodes
    /\ \E h1, h2 \in HashRange : get_node(hash_ring, h1) < get_node(hash_ring, h2)

\* ------------------------------------------------------------ C18
\* C18: add_node(e) for a member e and remove_node(e) for a non-member e
\* leave nodes, ring and sorted_keys as they are, and so a second add_node(e)
\* or remove_node(e) changes nothing after the first.
C18_Idempotent ==
    \A e \in Nodes :
        /\ e \in hash_ring.nodes => add_node(hash_ring, e, hashv) = hash_ring
        /\ e \notin hash_ring.nodes => remove_node(hash_ring, e, hashv) = hash_ring
        /\ add_node(add_node(hash_ring, e, hashv), e, hashv) = add_node(hash_ring, e, hashv)
        /\ remove_node(remove_node(hash_ring, e, hashv), e, hashv)
              = remove_node(hash_ring, e, hashv)

\* The same of the calls the run makes.
C18_IdempotentStep ==
    [][\A e \in Nodes :
          /\ (e \in hash_ring.nodes /\ Ring_Add(e)) => hash_ring' = hash_ring
          /\ (e \notin hash_ring.nodes /\ Ring_Remove(e)) => hash_ring' = hash_ring]_vars

C18_MembershipIdempotent == []C18_Idempotent /\ C18_IdempotentStep

\* A member whose position another endpoint took over: adding it again would
\* take the position back if add_node did anything.
C18_Witness ==
    \E e \in hash_ring.nodes : \E k \in VirtualKeys(e) :
        /\ hashv[k] \in DOMAIN hash_ring.ring
        /\ hash_ring.ring[hashv[k]] # e

\* ------------------------------------------------------------ C19
\* get_metrics, lines 113-122: a copy of the fields taken under self.lock,
\* the lock under which lines 42-43 and 96-107 change them.
get_metrics == metrics

\* The requests of the batches that lines 96-107 have counted: dispatched,
\* process_fn did not raise, and the thread is through with the batch.
CountedReqs ==
    {r \in Reqs : /\ inBatch[r] # 0
                  /\ inBatch[r] \notin raised
                  /\ \A t \in Threads : bno[t] # inBatch[r]}

\* The snapshot counts whole batches.
C19_WholeBatches ==
    LET m == get_metrics IN
        /\ m.total_batches = m.full_batches + m.timeout_batches
        /\ m.avg_batch_size[1] * m.total_batches
              = Cardinality(CountedReqs) * m.avg_batch_size[2]

\* C19: every snapshot has total_batches = full_batches + timeout_batches,
\* avg_batch_size * total_batches equal to the sum of the sizes of the
\* counted batches, and total_requests at least the number of requests in
\* the counted batches.
C19_ConsistentSnapshot ==
    /\ C19_WholeBatches
    /\ get_metrics.total_requests >= Cardinality(CountedReqs)

\* ------------------------------------------------------------ C20
\* The route calls made so far, and those past line 24.
Made == {c \in Calls : rpc[c] # "idle"}
Counted(c) == rpc[c] \notin {"idle", "incr"}
\* Call c has taken the fallback id f'req_{n}' at line 26, n kept in rtmp.
TookFallback(c) == rid[c] = NoId /\ rpc[c] \in {"primary", "failover", "done"}

\* C20: once every route call made is past line 24 the counter equals the
\* number of calls made, and two calls without a request_id never take the
\* same fallback id.
C20_AtomicCounter ==
    /\ (\A c \in Made : Counted(c)) => request_count = Cardinality(Made)
    /\ \A c, d \in Calls :
          (c # d /\ TookFallback(c) /\ TookFallback(d)) => rtmp[c] # rtmp[d]

\* ------------------------------------------------------------ C21
\* The step in which thread t hands a batch over as a TIMEOUT batch
\* (line 76), and the first request of that batch.
TimeoutDispatch(t) ==
    tpc[t] = "get" /\ tpc'[t] = "compute" /\ timeout_flag'[t]
FirstOf(t) == batch'[t][1]

\* C21: a batch dispatched on TIMEOUT is dispatched no earlier than
\* timeout_ms after its first request was enqueued, however long the thread
\* had been waiting before that request arrived.
C21_WindowFromFirstRequest ==
    [][\A t \in Threads : TimeoutDispatch(t) => age[FirstOf(t)] >= timeout_ms]_vars

\* What the code keeps: a TIMEOUT batch is dispatched once timeout_ms have
\* passed since last_batch_time, the end of the previous batch or of the
\* previous idle wait.
C21_WindowFromLastBatch ==
    [][\A t \in Threads : TimeoutDispatch(t) => elapsed[t] >= timeout_ms]_vars

\* ------------------------------------------------------------ C22
\* The step in which thread t takes a request from request_queue (line 63),
\* the step in which it hands a batch over as a FULL batch (line 69), and
\* the step in which it is back in the loop after _process_batch (lines
\* 70-71 and 77-78).
Dequeues(t) == tpc[t] = "get" /\ request_queue' # request_queue /\ batch'[t] # batch[t]
FullDispatch(t) == tpc[t] = "get" /\ tpc'[t] = "compute" /\ ~timeout_flag'[t]
BatchDone(t) == tpc[t] \in {"metrics", "error"} /\ tpc'[t] = "top"

\* The request that brings the batch to max_batch_size is dispatched with
\* it, as a FULL batch, in the step that dequeues it: no thread is in the
\* loop with max_batch_size requests, none holds more, and the batch is
\* empty when the thread is back in the loop.
C22_FullDispatch ==
    /\ [](\A t \in Threads :
            /\ Len(batch[t]) <= max_batch_size
            /\ tpc[t] \in {"top", "get"} => Len(batch[t]) < max_batch_size)
    /\ [][\A t \in Threads :
            /\ (Dequeues(t) /\ Len(batch'[t]) = max_batch_size) => FullDispatch(t)
            /\ FullDispatch(t) => Dequeues(t) /\ Len(batch'[t]) = max_batch_size
            /\ BatchDone(t) => batch'[t] = <<>>]_vars

\* A FULL batch is counted in full_batches and not in timeout_batches by the
\* time the thread is back in the loop.
C22_FullRecorded ==
    [][\A t \in Threads :
          (BatchDone(t) /\ ~timeout_flag[t]) =>
              /\ metrics'.full_batches = metrics.full_batches + 1
              /\ metrics'.timeout_batches = metrics.timeout_batches]_vars

\* The same for the FULL batches whose process_fn returned.
C22_FullRecordedOnReturn ==
    [][\A t \in Threads :
          (BatchDone(t) /\ ~timeout_flag[t] /\ tpc[t] = "metrics") =>
              /\ metrics'.full_batches = metrics.full_batches + 1
              /\ metrics'.timeout_batches = metrics.timeout_batches]_vars

\* C22: the request that brings the batch to max_batch_size is dispatched
\* with it before any further request is dequeued, the batch is recorded as
\* a FULL batch (full_batches incremented, timeout_batches not), and the
\* next batch starts empty.
C22_FullTrigger == C22_FullDispatch /\ C22_FullRecorded

\* ------------------------------------------------------------ C23
\* The metrics after one more batch of thread t is counted: total_batches
\* grows by 1, the counter of the batch's trigger grows by 1, the other one
\* stays, avg_batch_size becomes (prev * (n - 1) + len(batch)) / n.
CountsBatch(t) ==
    LET n == metrics.total_batches + 1
        prev == metrics.avg_batch_size
    IN  /\ metrics'.total_batches = n
        /\ metrics'.full_batches =
              metrics.full_batches + (IF timeout_flag[t] THEN 0 ELSE 1)
        /\ metrics'.timeout_batches =
              metrics.timeout_batches + (IF timeout_flag[t] THEN 1 ELSE 0)
        /\ metrics'.avg_batch_size =
              Frac(prev[1] * (n - 1) + Len(batch[t]) * prev[2], prev[2] * n)

\* C23: every batch handed to process_fn, whether process_fn returns or
\* raises, is counted once by the time the thread is back in the loop.
C23_PerBatchMetrics ==
    [][\A t \in Threads : BatchDone(t) => CountsBatch(t)]_vars

\* The batches whose process_fn returned are counted once.
C23_MetricsOnReturn ==
    [][\A t \in Threads : (BatchDone(t) /\ tpc[t] = "metrics") => CountsBatch(t)]_vars

\* A batch whose process_fn raised leaves the metrics as they were.
C23_NoMetricsOnRaise ==
    [][\A t \in Threads : (BatchDone(t) /\ tpc[t] = "error") => metrics' = metrics]_vars

\* ------------------------------------------------------------ C24
\* Thread t is at a put of lines 95 or 111, and the result_queue it writes.
AtPut(t) == tpc[t] \in {"deliver", "error"}
PutTarget(t) == result_queues[t][di[t]]
\* The caller of r has left process() with TimeoutError (lines 49-50).
Departed(r) == cpc[r] = "timeout"

\* C24: a caller whose wait expired has left with a timeout error and its
\* request can still be dispatched; whenever a dispatch thread is at a put,
\* the result_queue it writes has room, whether its caller waits or has
\* left: no result_queue is written twice.
C24_PutNeverBlocks ==
    /\ \A t \in Threads : AtPut(t) => CanPut(PutTarget(t))
    /\ \A r \in Reqs : Len(hist[r]) <= 1 /\ Len(slot[r]) <= 1
    /\ \A r \in Reqs : Departed(r) => received[r] = <<>>

\* A dispatch thread is about to write the result_queue of a caller that has
\* left, and another departed caller's result_queue was already written.
C24_Witness ==
    /\ \E t \in Threads : AtPut(t) /\ Departed(PutTarget(t))
    /\ \E r \in Reqs : Departed(r) /\ Len(slot[r]) = 1

\* ------------------------------------------------------------ C25
\* How the call process(r) has ended, lines 47-50: it returned what was in
\* its result_queue, or it raised TimeoutError.
NotEnded == <<"pending">>
process(r) ==
    IF cpc[r] = "got" THEN <<"return", received[r][1]>>
    ELSE IF cpc[r] = "timeout" THEN <<"raise", "TimeoutError">>
    ELSE NotEnded

\* WorkerNode.handle_infer, worker_node.py lines 42-49: what process returns
\* is returned, what it raises passes through the try/finally.
handle_infer(r) == process(r)

\* WorkerRequestHandler.do_POST for /infer, worker_node.py lines 68-81: the
\* status and the body of the reply.
do_POST(r) ==
    LET response == handle_infer(r) IN
        IF response[1] = "return" THEN <<200, response[2]>>
        ELSE IF response[1] = "raise" THEN <<500, response[2]>>
        ELSE NotEnded

\* The calls that have ended and whose request was in a batch on which
\* process_fn raised.
FailedCalls == {r \in Reqs : inBatch[r] \in raised /\ process(r) # NotEnded}

\* C25: a request of a batch whose process_fn raised is answered with an
\* error: process raises to its caller and POST /infer replies 500, never 200.
C25_ComputeFailureIsError ==
    \A r \in FailedCalls : process(r)[1] = "raise" /\ do_POST(r)[1] = 500

\* What the code does: unless the wait expired first, process returns the
\* dict {"error": ...} of line 111 and POST /infer replies 200 with it.
C25_ErrorRelayedAs200 ==
    \A r \in FailedCalls :
        \/ process(r) = <<"raise", "TimeoutError">> /\ do_POST(r)[1] = 500
        \/ /\ process(r) = <<"return", <<"error", inBatch[r]>>>>
           /\ do_POST(r) = <<200, <<"error", inBatch[r]>>>>

\* ------------------------------------------------------------ C26
\* The forward of call c to its primary failed, and what route_request
\* returns after the failover loop of lines 46-62.
PrimaryFailed(c) == Finished(c) /\ ~Healthy(target_node[c])
FailoverResults(c) == {AllFailed} \cup {ResponseOf(n) : n \in Others(c)}

\* C26: whatever way the forward to the primary fails (connection error,
\* timeout while connecting or reading, unreadable response), the call goes
\* through the remaining ring members and the primary's failure is not
\* propagated to the client.
C26_EveryFailureFailsOver ==
    \A c \in Calls :
        PrimaryFailed(c) =>
            /\ rresult[c] # Propagated(health[target_node[c]])
            /\ rresult[c] \in FailoverResults(c)

\* What the code does: a URLError of the primary enters the failover loop,
\* every other failure of the primary is raised to the client with no other
\* member tried.
C26_OnlyURLErrorFailsOver ==
    \A c \in Calls :
        PrimaryFailed(c) =>
            IF health[target_node[c]] = "urlerror"
            THEN rresult[c] \in FailoverResults(c)
            ELSE /\ rresult[c] = Propagated(health[target_node[c]])
                 /\ Len(answers[c]) = 1

\* ------------------------------------------------------------ C27
\* The ring hashes, and the successor of hash value h on the ring: the
\* smallest ring hash strictly greater than h, the smallest ring hash of all
\* when none is greater.
RingHashes == DOMAIN hash_ring.ring
MinOf(S) == CHOOSE x \in S : \A y \in S : x <= y
Successor(h) ==
    LET above == {k \in RingHashes : k > h}
    IN  IF above # {} THEN MinOf(above) ELSE MinOf(RingHashes)

\* C27: on a non-empty ring the lookup of a key returns the endpoint that
\* owns the successor of the key's hash; a key whose hash is a ring hash maps
\* to the next position.
C27_LookupIsSuccessor ==
    RingHashes # {} =>
        \A h \in HashRange : get_node(hash_ring, h) = hash_ring.ring[Successor(h)]

\* A key whose hash is a ring hash is looked up and the next position
\* belongs to another endpoint, and a key above every ring hash wraps to an
\* endpoint other than the owner of the last position.
C27_Witness ==
    /\ \E h \in RingHashes :
          /\ \E k \in RingHashes : k > h
          /\ get_node(hash_ring, h) # hash_ring.ring[h]
    /\ \E h \in HashRange :
          /\ \A k \in RingHashes : k <= h
          /\ RingHashes # {}
          /\ LET last == CHOOSE k \in RingHashes : \A j \in RingHashes : j <= k
             IN  get_node(hash_ring, h) # hash_ring.ring[last]

\* ------------------------------------------------------------ C28
\* Thread t is idle in request_queue.get: its batch is empty and so is
\* request_queue.  An idle wake-up is the step of lines 73-78 taken from
\* there: get raised Empty, nothing is dispatched, the loop goes round.
Idle(t) == tpc[t] = "get" /\ batch[t] = <<>> /\ request_queue = <<>>
IdleWakeUp(t) == Idle(t) /\ tpc'[t] = "top"

\* C28: a thread that is idle waits without a deadline: it takes no timeout
\* wake-up step, for every timeout_ms >= 0.
C28_NoIdlePolling ==
    [][\A t \in Threads : ~IdleWakeUp(t)]_vars

\* What the code does: an idle thread wakes up each time timeout_ms have
\* passed since last_batch_time and starts a new window; with timeout_ms = 0
\* it is due at once, every time.
C28_IdlePollsEveryWindow ==
    /\ [][\A t \in Threads :
            IdleWakeUp(t) => elapsed[t] >= timeout_ms /\ elapsed'[t] = 0]_vars
    /\ [](\A t \in Threads : (Idle(t) /\ elapsed[t] >= timeout_ms) => ENABLED Loop_Empty(t))

\* ------------------------------------------------------------ C29
\* One dispatch thread is all the run ever has.
SingleDispatchTask == nspawns = 1
\* The step in which thread t hands a batch over (lines 69 and 76).
Dispatches(t) == tpc[t] = "get" /\ tpc'[t] = "compute"
\* process() calls enqueue in the order of their names: r1 was enqueued
\* before r2.
EnqueuedBefore(r1, r2) == r1 < r2

\* The batch thread t hands over holds its requests in enqueue order, and
\* every request enqueued before one of them is in it or was dispatched in
\* an earlier batch.
DispatchedInOrder(t) ==
    LET b == batch'[t] IN
        /\ \A i, j \in 1..Len(b) : i < j => EnqueuedBefore(b[i], b[j])
        /\ \A r2 \in Elems(b) : \A r1 \in Reqs :
              EnqueuedBefore(r1, r2) => (inBatch[r1] # 0 \/ r1 \in Elems(b))

\* C29: with the single dispatch task, a request enqueued before another is
\* never dispatched in a later batch than it, and within a batch requests
\* appear in enqueue order.
C29_QueueOrder ==
    [][SingleDispatchTask => \A t \in Threads : Dispatches(t) => DispatchedInOrder(t)]_vars

\* The single dispatch thread works on a batch of two requests, in enqueue
\* order, after an earlier batch that held the request enqueued before them.
C29_Witness ==
    /\ SingleDispatchTask
    /\ \E t \in Threads :
          /\ tpc[t] = "compute"
          /\ batch[t] = <<2, 3>>
          /\ inBatch[1] = 1

\* The same order for any number of dispatch threads.
C29_QueueOrderAnyThreads ==
    [][\A t \in Threads : Dispatches(t) => DispatchedInOrder(t)]_vars

\* ------------------------------------------------------------ C30
\* The calls of process that have returned a result of process_fn, and the
\* batches that carried those results.
ReturnedResult(r) == process(r)[1] = "return" /\ process(r)[2][1] = "result"
ReturnedBatches == {inBatch[r] : r \in {x \in Reqs : ReturnedResult(x)}}

\* C30: once process has returned a result to its caller, a get_metrics
\* snapshot counts the batch that carried it, in total_batches and in the
\* trigger counters.
C30_MetricsVisibleOnReturn ==
    LET m == get_metrics IN
        /\ m.total_batches >= Cardinality(ReturnedBatches)
        /\ m.full_batches + m.timeout_batches >= Cardinality(ReturnedBatches)

\* What the code gives: the batch of a returned result is counted once its
\* dispatch thread is back in the loop.
C30_MetricsVisibleAfterBatch ==
    LET done == {b \in ReturnedBatches : \A t \in Threads : bno[t] # b} IN
        get_metrics.total_batches >= Cardinality(done)

\* ------------------------------------------------------------ C31
\* No dispatch thread is inside _processing_loop.
AllExited == \A t \in Threads : tpc[t] \in {"unborn", "exited"}

\* C31: once stop() has been called and no start() follows, every dispatch
\* thread eventually leaves its loop and exits and none is running from then
\* on, provided every call of process_fn returns or raises; no thread waits
\* forever on an empty request_queue.
C31_ExitsAfterStop == stopCalled ~> [](AllExited)

\* stop() has been called and a dispatch thread is still blocked in
\* request_queue.get on an empty queue, its wait not yet over, while another
\* thread has already exited.
C31_Witness ==
    /\ stopCalled /\ ~running
    /\ \E t \in Threads : Idle(t) /\ ~WaitOver(t)
    /\ \E t \in Threads : tpc[t] = "exited"

====
